---- MODULE Spec2Model ----
(***************************************************************************)
(* Model of strem_2.py: a Streamlit page that loads an ozone/altitude CSV, *)
(* cleans it, bins ozone by altitude, smooths the binned means and draws   *)
(* the vertical profile.  One run of the script is the sequence            *)
(*   load_data -> prep_profile (validate, clean, profile) ->               *)
(*   make_profile_plot -> st.pyplot                                        *)
(* and the script is re-run on every widget change.                        *)
(*                                                                         *)
(* Floating point values are modelled as records [k, v]: k = "num" with an *)
(* integer v, or one of the IEEE specials "nan", "inf", "ninf".  Raw       *)
(* measurements are whole numbers; derived statistics (mean, median, std,  *)
(* sem, mean_smooth, band bounds) are fixed point with Scale units per 1.  *)
(***************************************************************************)
EXTENDS Integers, Sequences, FiniteSets, TLC

VARIABLES file, cache, pc, bin_m, window, show_raw, show_ci,
          df, d, profile, fig, err, rendered

vars == <<file, cache, pc, bin_m, window, show_raw, show_ci,
          df, d, profile, fig, err, rendered>>

----------------------------------------------------------------------------
(* Bounds of the model *)

MaxRows == 2
MaxBinRows == 3
MaxPerLevel == 5
MaxLevels == 3

(* Fixed point resolution of derived statistics *)
Scale == 100

----------------------------------------------------------------------------
(* Program constants *)

DATA_PATH == "soot_trimmed.csv"
FILL_VALUES == {-9999, -8888, -7777}
ALT_COL == "Altitude_m_MSL"
O3_COL == "Ozone_ppbv"
MinPeriods == 3
MinSemCount == 5
CiZ == 196

----------------------------------------------------------------------------
(* Values *)

Num(n) == [k |-> "num", v |-> n]
NaN == [k |-> "nan", v |-> 0]
PosInf == [k |-> "inf", v |-> 0]
NegInf == [k |-> "ninf", v |-> 0]
Str == [k |-> "str", v |-> 0]

IsNum(x) == x.k = "num"
NotNa(x) == x.k \in {"num", "inf", "ninf"}
IsFinite(x) == x.k = "num"

(* x <= 0 on floats; any comparison with NaN is false *)
LeZero(x) == \/ x.k = "ninf"
             \/ x.k = "num" /\ x.v <= 0

(* x < y on non-NaN floats *)
Less(x, y) == \/ x.k = "ninf" /\ y.k # "ninf"
              \/ x.k = "num" /\ y.k = "inf"
              \/ x.k = "num" /\ y.k = "num" /\ x.v < y.v

Range(s) == {s[i] : i \in 1..Len(s)}

RECURSIVE SumSeq(_)
SumSeq(s) == IF s = <<>> THEN 0 ELSE s[1] + SumSeq(Tail(s))

RECURSIVE ISqrtFrom(_, _, _)
ISqrtFrom(n, lo, hi) ==
    IF lo >= hi THEN lo
    ELSE LET mid == (lo + hi + 1) \div 2
         IN IF mid * mid <= n THEN ISqrtFrom(n, mid, hi)
            ELSE ISqrtFrom(n, lo, mid - 1)

(* floor of the square root of a natural number *)
ISqrt(n) == ISqrtFrom(n, 0, IF n < 46340 THEN n ELSE 46340)

----------------------------------------------------------------------------
(* Raw CSV text.  A cell is a token: an integer literal ("-9999"), a real  *)
(* literal with a zero fraction ("-9999.0"), the literals inf / -inf, an   *)
(* empty field, or text that is not a number.                              *)

IntTok(n) == [form |-> "int", v |-> n]
RealTok(n) == [form |-> "real", v |-> n]
InfTok == [form |-> "inf", v |-> 0]
NegInfTok == [form |-> "ninf", v |-> 0]
EmptyTok == [form |-> "empty", v |-> 0]
TextTok == [form |-> "text", v |-> 0]

(* na_values=FILL_VALUES: the integer and the real spelling of a fill value *)
IsFillValue(tok) == tok.form \in {"int", "real"} /\ tok.v \in FILL_VALUES

(* read_csv without na_values: a fill value is read as a number *)
ReadCell_NoNaValues(tok) ==
    IF tok.form = "empty" THEN NaN
    ELSE IF tok.form \in {"int", "real"} THEN Num(tok.v)
    ELSE IF tok.form = "inf" THEN PosInf
    ELSE IF tok.form = "ninf" THEN NegInf
    ELSE Str

(* pd.read_csv on one cell *)
ReadCell(tok) ==
    IF IsFillValue(tok) \/ tok.form = "empty" THEN NaN
    ELSE IF tok.form \in {"int", "real"} THEN Num(tok.v)
    ELSE IF tok.form = "inf" THEN PosInf
    ELSE IF tok.form = "ninf" THEN NegInf
    ELSE Str

(* pd.read_csv on the whole file: same columns, every cell read *)
ReadCsv(f) ==
    [set |-> TRUE, cols |-> f.cols,
     rows |-> [i \in 1..Len(f.rows) |->
                 [c \in DOMAIN f.rows[i] |-> ReadCell(f.rows[i][c])]]]

(* pd.to_numeric(errors="coerce") on one cell *)
ToNumeric(x) == IF x.k = "str" THEN NaN ELSE x

----------------------------------------------------------------------------
(* Unset values of the script's variables *)

NoFrame == [set |-> FALSE, cols |-> <<>>, rows |-> <<>>]
NoTable == [set |-> FALSE, rows |-> <<>>]
NoFig == [set |-> FALSE, raw |-> FALSE, has_band |-> FALSE, band |-> <<>>]
NoErr == [kind |-> "none", missing |-> <<>>, found |-> <<>>]

----------------------------------------------------------------------------
(* prep_profile: validation and cleaning *)

(* reports both required columns as soon as one of them is missing *)
Missing_AllRequired(frame) ==
    IF {ALT_COL, O3_COL} \subseteq Range(frame.cols) THEN <<>>
    ELSE <<ALT_COL, O3_COL>>

(* missing = [c for c in [ALT_COL, O3_COL] if c not in df.columns] *)
Missing(frame) ==
    SelectSeq(<<ALT_COL, O3_COL>>, LAMBDA c : c \notin Range(frame.cols))

(* to_numeric on both columns, then ozone <= 0 becomes NaN; the row keeps *)
(* its index label                                                        *)
Coerce(frame) ==
    [i \in 1..Len(frame.rows) |->
        LET o == ToNumeric(frame.rows[i][O3_COL])
        IN [idx |-> i,
            alt |-> ToNumeric(frame.rows[i][ALT_COL]),
            o3 |-> IF LeZero(o) THEN NaN ELSE o]]

(* dropna(subset=[ALT_COL, O3_COL]) *)
DropNa(x) == SelectSeq(x, LAMBDA r : NotNa(r.alt) /\ NotNa(r.o3))

CleanedRows(frame) == DropNa(Coerce(frame))

----------------------------------------------------------------------------
(* prep_profile: binning and per-bin statistics *)

(* rounding with ties away from the lower integer: floor(a / b + 1/2) *)
RoundQuot_HalfUp(a, b) == (2 * a + b) \div (2 * b)

(* numpy rounding of a / b to an integer: nearest, ties to the even one *)
RoundQuot(a, b) ==
    LET q == a \div b
        r == a % b
    IN IF 2 * r < b THEN q
       ELSE IF 2 * r > b THEN q + 1
       ELSE IF q % 2 = 0 THEN q ELSE q + 1

(* (alt / bin_m).round() * bin_m *)
AltBin(alt, b) == IF IsNum(alt) THEN Num(RoundQuot(alt.v, b) * b) ELSE alt

WithAltBin(rows, b) ==
    [i \in 1..Len(rows) |->
        [idx |-> rows[i].idx, alt |-> rows[i].alt, o3 |-> rows[i].o3,
         alt_bin |-> AltBin(rows[i].alt, b)]]

RECURSIVE SortKeys(_)
SortKeys(S) ==
    IF S = {} THEN <<>>
    ELSE LET m == CHOOSE x \in S : \A y \in S : ~Less(y, x)
         IN <<m>> \o SortKeys(S \ {m})

(* groups cumulatively: the rows of the bin and of every lower bin *)
GroupOf_UpToKey(rows, key) ==
    LET g == SelectSeq(rows, LAMBDA r : ~Less(key, r.alt_bin))
    IN [i \in 1..Len(g) |-> g[i].o3]

(* ozone values of the rows of one bin *)
GroupOf(rows, key) ==
    LET g == SelectSeq(rows, LAMBDA r : r.alt_bin = key)
    IN [i \in 1..Len(g) |-> g[i].o3]

HasInf(xs) == \E i \in 1..Len(xs) : ~IsNum(xs[i])
Vals(xs) == [i \in 1..Len(xs) |-> xs[i].v]
Squares(xs) == [i \in 1..Len(xs) |-> xs[i].v * xs[i].v]

(* the k-th smallest of the values xs *)
KthSmallest(xs, kth) ==
    LET S == Range(xs)
    IN CHOOSE x \in S :
         /\ Cardinality({i \in 1..Len(xs) : Less(xs[i], x)}) < kth
         /\ Cardinality({i \in 1..Len(xs) : ~Less(x, xs[i])}) >= kth

GroupMean(xs) ==
    IF HasInf(xs) THEN PosInf
    ELSE Num((SumSeq(Vals(xs)) * Scale) \div Len(xs))

GroupMedian(xs) ==
    LET n == Len(xs)
        lo == KthSmallest(xs, (n + 1) \div 2)
        hi == KthSmallest(xs, (n \div 2) + 1)
    IN IF ~IsNum(lo) \/ ~IsNum(hi) THEN PosInf
       ELSE Num(((lo.v + hi.v) * Scale) \div 2)

(* sample standard deviation (ddof = 1) *)
GroupStd(xs) ==
    LET n == Len(xs)
        s == SumSeq(Vals(xs))
        ss == SumSeq(Squares(xs))
    IN IF n < 2 \/ HasInf(xs) THEN NaN
       ELSE Num(ISqrt(((n * ss - s * s) * Scale * Scale) \div (n * (n - 1))))

(* profile["std"] / np.sqrt(profile["n"]) *)
SemOf(std, n) ==
    IF ~IsNum(std) THEN NaN
    ELSE Num((std.v * Scale) \div ISqrt(n * Scale * Scale))

(* profile.loc[profile["n"] < 5, "sem"] = np.nan *)
MaskSem(sem, n) == IF n < MinSemCount THEN NaN ELSE sem

(* groupby("alt_bin").agg(...).reset_index().sort_values("alt_bin"), sem *)
Aggregate(rows) ==
    LET keys == SortKeys({rows[i].alt_bin : i \in 1..Len(rows)})
    IN [j \in 1..Len(keys) |->
          LET xs == GroupOf(rows, keys[j])
          IN [alt_bin |-> keys[j],
              mean |-> GroupMean(xs),
              median |-> GroupMedian(xs),
              n |-> Len(xs),
              std |-> GroupStd(xs),
              sem |-> MaskSem(SemOf(GroupStd(xs), Len(xs)), Len(xs))]]

----------------------------------------------------------------------------
(* prep_profile: centred rolling mean of the bin means *)

Max(a, b) == IF a > b THEN a ELSE b
Min(a, b) == IF a < b THEN a ELSE b

(* positions of the window of w bins centred on position i, clipped to 1..n *)
WindowAt(i, w, n) ==
    LET last == i + (w - 1) \div 2
        first == last - w + 1
    IN Max(1, first)..Min(n, last)

(* rolling(window, center=True, min_periods=3).mean() at position i; the  *)
(* rolling code turns infinities into NaN and skips NaN                   *)
RollingMean(means, i, w) ==
    LET pos == {j \in WindowAt(i, w, Len(means)) : IsNum(means[j])}
        obs == [j \in 1..Len(means) |-> IF j \in pos THEN means[j].v ELSE 0]
    IN IF Cardinality(pos) < MinPeriods THEN NaN
       ELSE Num(SumSeq(obs) \div Cardinality(pos))

WithSmooth(agg, w) ==
    LET means == [j \in 1..Len(agg) |-> agg[j].mean]
    IN [j \in 1..Len(agg) |->
          [alt_bin |-> agg[j].alt_bin, mean |-> agg[j].mean,
           median |-> agg[j].median, n |-> agg[j].n, std |-> agg[j].std,
           sem |-> agg[j].sem,
           mean_smooth |-> RollingMean(means, j, w)]]

----------------------------------------------------------------------------
(* make_profile_plot: the confidence band *)

(* mask that forgets sem *)
BandMask_SmoothOnly(row) == NotNa(row.mean_smooth)

(* mask = sem.notna() & mean_smooth.notna() *)
BandMask(row) == NotNa(row.sem) /\ NotNa(row.mean_smooth)

BandLower(row) == Num(row.mean_smooth.v - (CiZ * row.sem.v) \div 100)
BandUpper(row) == Num(row.mean_smooth.v + (CiZ * row.sem.v) \div 100)

BandOf(prows) ==
    LET m == SelectSeq(prows, BandMask)
    IN [j \in 1..Len(m) |->
          [y |-> m[j].alt_bin, x1 |-> BandLower(m[j]), x2 |-> BandUpper(m[j])]]

----------------------------------------------------------------------------
(* The script, one step per stage; pc is the position in the current run *)

Paths == {DATA_PATH}

(* load_data under st.cache_data: the entry is keyed by the path argument *)
(* only; a miss reads the file and stores the frame, a failed read raises *)
(* and stores nothing                                                     *)
LoadData ==
    /\ pc = "load"
    /\ IF cache[DATA_PATH].set
       THEN /\ df' = cache[DATA_PATH]
            /\ pc' = "validate"
            /\ UNCHANGED <<cache, err>>
       ELSE IF file.ok
       THEN /\ df' = ReadCsv(file)
            /\ cache' = [cache EXCEPT ![DATA_PATH] = ReadCsv(file)]
            /\ pc' = "validate"
            /\ UNCHANGED err
       ELSE /\ err' = [kind |-> "load", missing |-> <<>>, found |-> <<>>]
            /\ pc' = "stopped"
            /\ UNCHANGED <<df, cache>>
    /\ UNCHANGED <<file, bin_m, window, show_raw, show_ci, d, profile, fig,
                   rendered>>

(* prep_profile, column check; the caller shows the message and stops *)
ValidateColumns ==
    /\ pc = "validate"
    /\ IF Missing(df) # <<>>
       THEN /\ err' = [kind |-> "schema", missing |-> Missing(df),
                       found |-> df.cols]
            /\ pc' = "stopped"
       ELSE /\ pc' = "clean"
            /\ UNCHANGED err
    /\ UNCHANGED <<file, cache, bin_m, window, show_raw, show_ci, df, d,
                   profile, fig, rendered>>

(* cleaning that does not raise on an empty result *)
CleanRows_NoEmptyCheck ==
    /\ pc = "clean"
    /\ d' = [set |-> TRUE, rows |-> CleanedRows(df)]
    /\ pc' = "profile"
    /\ UNCHANGED <<file, cache, bin_m, window, show_raw, show_ci, df,
                   profile, fig, err, rendered>>

(* prep_profile, coercion and dropna on a copy; empty result raises *)
CleanRows ==
    /\ pc = "clean"
    /\ IF CleanedRows(df) = <<>>
       THEN /\ err' = [kind |-> "empty", missing |-> <<>>, found |-> <<>>]
            /\ pc' = "stopped"
            /\ UNCHANGED d
       ELSE /\ d' = [set |-> TRUE, rows |-> CleanedRows(df)]
            /\ pc' = "profile"
            /\ UNCHANGED err
    /\ UNCHANGED <<file, cache, bin_m, window, show_raw, show_ci, df,
                   profile, fig, rendered>>

(* prep_profile, alt_bin column, grouped statistics, sem, mean_smooth *)
BuildProfile ==
    /\ pc = "profile"
    /\ d' = [set |-> TRUE, rows |-> WithAltBin(d.rows, bin_m)]
    /\ profile' = [set |-> TRUE,
                   rows |-> WithSmooth(Aggregate(WithAltBin(d.rows, bin_m)),
                                       window)]
    /\ pc' = "plot"
    /\ UNCHANGED <<file, cache, bin_m, window, show_raw, show_ci, df, fig,
                   err, rendered>>

(* make_profile_plot: raw scatter if asked, both curves, band if asked *)
(* and some bin has both sem and mean_smooth                           *)
MakePlot ==
    /\ pc = "plot"
    /\ fig' = [set |-> TRUE,
               raw |-> show_raw,
               has_band |-> show_ci /\ BandOf(profile.rows) # <<>>,
               band |-> IF show_ci THEN BandOf(profile.rows) ELSE <<>>]
    /\ pc' = "render"
    /\ UNCHANGED <<file, cache, bin_m, window, show_raw, show_ci, df, d,
                   profile, err, rendered>>

(* st.pyplot(fig) *)
Render ==
    /\ pc = "render"
    /\ rendered' = TRUE
    /\ pc' = "done"
    /\ UNCHANGED <<file, cache, bin_m, window, show_raw, show_ci, df, d,
                   profile, fig, err>>

(* Slider and checkbox values the sidebar can deliver *)
BinChoices == {10, 50, 100}
WindowChoices == {3, 5}

(* A widget change re-runs the script from the top; only the cache is kept *)
Rerun ==
    /\ pc \in {"done", "stopped"}
    /\ bin_m' \in BinChoices
    /\ window' \in WindowChoices
    /\ show_raw' \in BOOLEAN
    /\ show_ci' \in BOOLEAN
    /\ pc' = "load"
    /\ df' = NoFrame /\ d' = NoTable /\ profile' = NoTable
    /\ fig' = NoFig /\ err' = NoErr /\ rendered' = FALSE
    /\ UNCHANGED <<file, cache>>

----------------------------------------------------------------------------
(* Input files *)

SeqsUpTo(S, n) == UNION {[1..m -> S] : m \in 0..n}

(* a CSV with header cols and one row per pair <<altitude, ozone>> *)
MkFile(cols, pairs) ==
    [ok |-> TRUE, cols |-> cols,
     rows |-> [i \in 1..Len(pairs) |->
                 [c \in Range(cols) |->
                    IF c = ALT_COL THEN pairs[i][1]
                    ELSE IF c = O3_COL THEN pairs[i][2]
                    ELSE TextTok]]]

NoFile == [ok |-> FALSE, cols |-> <<>>, rows |-> <<>>]

StartOfRun ==
    /\ pc = "load"
    /\ cache = [p \in Paths |-> NoFrame]
    /\ df = NoFrame /\ d = NoTable /\ profile = NoTable
    /\ fig = NoFig /\ err = NoErr /\ rendered = FALSE

(* Header rows: both required columns, in either order, or some missing *)
ColLayouts ==
    {<<ALT_COL, O3_COL>>, <<O3_COL, "Time_UTC", ALT_COL>>,
     <<ALT_COL, "Time_UTC">>, <<"Time_UTC", O3_COL>>, <<"Time_UTC">>}

(* Cells for the cleaning rules: good values, fill values in both *)
(* spellings, text, infinities, zero and negative readings        *)
CleanAltToks ==
    {IntTok(100), IntTok(-40), IntTok(-9999), RealTok(-8888), TextTok, InfTok}
CleanO3Toks ==
    {IntTok(30), IntTok(0), IntTok(-7777), RealTok(-9999), TextTok, InfTok,
     NegInfTok}

CleanFiles ==
    {NoFile} \cup
    {MkFile(c, p) : c \in ColLayouts,
                    p \in SeqsUpTo(CleanAltToks \X CleanO3Toks, MaxRows)}

(* Records on, next to and half way between bin centres, below and *)
(* above sea level                                                 *)
BinRecords ==
    {<<100, 30>>, <<110, 34>>, <<490, 10>>, <<25, 30>>, <<75, 34>>,
     <<-25, 10>>, <<50, 30>>, <<150, 34>>}

BinFiles ==
    {MkFile(<<ALT_COL, O3_COL>>, p) :
        p \in SeqsUpTo({<<IntTok(r[1]), IntTok(r[2])>> : r \in BinRecords},
                       MaxBinRows)}

(* Profiles with several bins of several sizes: level l is altitude      *)
(* 50 * (l - 1) and holds cnt[l] rows; the ozone of its j-th row follows *)
(* one of three patterns                                                 *)
CountChoices == {0, 1} \cup ((MinSemCount - 1)..MaxPerLevel)
Patterns == {"flat", "varied", "inf"}

PatternO3(pat, l, j) ==
    IF pat = "flat" THEN IntTok(30)
    ELSE IF pat = "inf" /\ l = 2 /\ j = 1 THEN InfTok
    ELSE IntTok(20 + 2 * l + 3 * (j % 3))

RECURSIVE LevelRows(_, _, _)
LevelRows(cnt, pat, l) ==
    IF l = 0 THEN <<>>
    ELSE LevelRows(cnt, pat, l - 1) \o
         [j \in 1..cnt[l] |-> <<IntTok(50 * (l - 1)), PatternO3(pat, l, j)>>]

StatsFiles ==
    {MkFile(<<ALT_COL, O3_COL>>, LevelRows(cnt, pat, MaxLevels)) :
        cnt \in [1..MaxLevels -> CountChoices], pat \in Patterns}

(* Files the CSV path can hold over the life of the process *)
RunFiles ==
    {NoFile,
     MkFile(<<ALT_COL, "Time_UTC">>, <<<<IntTok(100), IntTok(30)>>>>),
     MkFile(<<ALT_COL, O3_COL>>, <<<<IntTok(100), IntTok(0)>>>>),
     MkFile(<<ALT_COL, O3_COL>>, <<<<IntTok(100), IntTok(30)>>>>),
     MkFile(<<ALT_COL, O3_COL>>,
            <<<<IntTok(100), IntTok(34)>>, <<IntTok(-9999), IntTok(30)>>>>)}

(* The CSV is replaced, removed or created outside the script *)
FileChange ==
    /\ file' \in RunFiles \ {file}
    /\ UNCHANGED <<cache, pc, bin_m, window, show_raw, show_ci, df, d,
                   profile, fig, err, rendered>>

----------------------------------------------------------------------------
(* Specifications *)

(* First run of a fresh process: sliders and checkboxes at their defaults *)
Init ==
    /\ file \in RunFiles
    /\ bin_m = 50 /\ window = 11 /\ show_raw = TRUE /\ show_ci = TRUE
    /\ StartOfRun

Next ==
    \/ LoadData \/ ValidateColumns \/ CleanRows \/ BuildProfile
    \/ MakePlot \/ Render \/ Rerun \/ FileChange

Spec == Init /\ [][Next]_vars

(* One run of the script over a file that does not change meanwhile *)
NextRun ==
    \/ LoadData \/ ValidateColumns \/ CleanRows \/ BuildProfile
    \/ MakePlot \/ Render

InitClean ==
    /\ file \in CleanFiles
    /\ bin_m = 50 /\ window = 11 /\ show_raw = TRUE /\ show_ci = TRUE
    /\ StartOfRun

SpecClean == InitClean /\ [][NextRun]_vars

InitBin ==
    /\ file \in BinFiles
    /\ bin_m \in BinChoices
    /\ window = 11 /\ show_raw = TRUE /\ show_ci = TRUE
    /\ StartOfRun

SpecBin == InitBin /\ [][NextRun]_vars

InitStats ==
    /\ file \in StatsFiles
    /\ bin_m \in {50, 100}
    /\ window \in WindowChoices
    /\ show_raw = TRUE
    /\ show_ci \in BOOLEAN
    /\ StartOfRun

SpecStats == InitStats /\ [][NextRun]_vars

----------------------------------------------------------------------------
(* Properties of the cleaned dataset *)

Required == {ALT_COL, O3_COL}
RowIdx(t) == {t.rows[i].idx : i \in 1..Len(t.rows)}

(* C1: every record of the cleaned dataset has a finite altitude and a   *)
(* strictly positive ozone value.                                        *)
C1_CleanedFiniteAndPositive ==
    d.set =>
      \A i \in 1..Len(d.rows) :
         /\ IsFinite(d.rows[i].alt)
         /\ NotNa(d.rows[i].o3) /\ ~LeZero(d.rows[i].o3)

(* C2: a row of the file whose altitude or ozone cell is a fill value    *)
(* (-9999, -8888, -7777, integer or real spelling) is not in the cleaned *)
(* dataset.                                                              *)
C2_FillValueRowsDropped ==
    d.set =>
      \A i \in 1..Len(file.rows) :
         (IsFillValue(file.rows[i][ALT_COL]) \/ IsFillValue(file.rows[i][O3_COL]))
            => i \notin RowIdx(d)

(* a cleaned dataset exists although some row has a fill value as its *)
(* altitude next to a good ozone reading                              *)
C2_Witness ==
    /\ d.set
    /\ \E i \in 1..Len(file.rows) :
          /\ IsFillValue(file.rows[i][ALT_COL])
          /\ file.rows[i][O3_COL] = IntTok(30)

(* C8: a frame lacking a required column stops prep_profile with a       *)
(* message that names exactly the missing required columns and lists the *)
(* columns found, before anything is coerced or dropped and with the     *)
(* frame as loaded; with both columns present there is no such error.    *)
C8_SchemaError ==
    /\ err.kind = "schema" =>
         /\ \A c \in Required : c \in Range(err.missing) <=> c \notin Range(file.cols)
         /\ Range(err.missing) \subseteq Required
         /\ err.missing # <<>>
         /\ err.found = file.cols
         /\ ~d.set /\ ~profile.set
         /\ df = ReadCsv(file)
    /\ (pc \notin {"load", "validate"} /\ file.ok) =>
         (err.kind = "schema" <=> ~(Required \subseteq Range(file.cols)))

(* the file lacks exactly one of the two columns and has rows *)
C8_Witness ==
    /\ err.kind = "schema"
    /\ Len(err.missing) = 1
    /\ Len(df.rows) > 0
    /\ Len(err.found) = 2

----------------------------------------------------------------------------
(* Properties of the binned profile *)

BinsOf(t) == {t.rows[i].alt_bin : i \in 1..Len(t.rows)}

(* C3: the profile has one row per distinct alt_bin of the cleaned        *)
(* records, n is the number of cleaned records of that bin (at least 1),  *)
(* and the counts add up to the number of cleaned records; altitudes 100, *)
(* 110, 490 at bin width 100 give bin 100 with n = 2 and bin 500 with     *)
(* n = 1.                                                                 *)
C3_OneRowPerBinWithCount ==
    profile.set =>
      /\ BinsOf(profile) = BinsOf(d)
      /\ Len(profile.rows) = Cardinality(BinsOf(d))
      /\ \A j \in 1..Len(profile.rows) :
            /\ profile.rows[j].n =
                 Cardinality({i \in 1..Len(d.rows) :
                                 d.rows[i].alt_bin = profile.rows[j].alt_bin})
            /\ profile.rows[j].n >= 1
      /\ SumSeq([j \in 1..Len(profile.rows) |-> profile.rows[j].n]) = Len(d.rows)
      /\ (/\ bin_m = 100
          /\ file.rows = MkFile(<<ALT_COL, O3_COL>>,
                                <<<<IntTok(100), IntTok(30)>>,
                                  <<IntTok(110), IntTok(34)>>,
                                  <<IntTok(490), IntTok(10)>>>>).rows)
         => /\ Len(profile.rows) = 2
            /\ profile.rows[1].alt_bin = Num(100) /\ profile.rows[1].n = 2
            /\ profile.rows[1].mean = Num(32 * Scale)
            /\ profile.rows[2].alt_bin = Num(500) /\ profile.rows[2].n = 1
            /\ profile.rows[2].mean = Num(10 * Scale)

(* three records in two bins, the lower bin holding two of them *)
C3_Witness ==
    /\ profile.set
    /\ Len(d.rows) = 3
    /\ Len(profile.rows) = 2
    /\ profile.rows[1].n = 2
    /\ profile.rows[2].n = 1

(* ties rounded half-up: floor(a / b + 1/2) *)
HalfUp(a, b) == (2 * a + b) \div (2 * b)

(* C4 as stated: alt_bin is the nearest multiple of the bin width and an *)
(* altitude half way between two bin centres goes to the upper one.      *)
C4_TiesRoundHalfUp ==
    profile.set =>
      \A i \in 1..Len(d.rows) :
         IsNum(d.rows[i].alt) =>
            d.rows[i].alt_bin = Num(HalfUp(d.rows[i].alt.v, bin_m) * bin_m)

(* C4 amended: alt_bin is a multiple of the bin width nearest to the     *)
(* altitude, and an altitude half way between two bin centres goes to    *)
(* the one whose multiple k is even.                                     *)
C4_TiesRoundHalfEven ==
    profile.set =>
      \A i \in 1..Len(d.rows) :
         IsNum(d.rows[i].alt) =>
            LET a == d.rows[i].alt.v
                b == d.rows[i].alt_bin
            IN /\ IsNum(b)
               /\ b.v % bin_m = 0
               /\ 2 * (a - b.v) <= bin_m
               /\ 2 * (b.v - a) <= bin_m
               /\ (2 * (a - b.v) = bin_m \/ 2 * (b.v - a) = bin_m)
                     => (b.v \div bin_m) % 2 = 0

(* one tie went down to an even multiple and another went up to one *)
C4_Witness ==
    /\ profile.set
    /\ \E i \in 1..Len(d.rows) : 2 * (d.rows[i].alt.v - d.rows[i].alt_bin.v) = bin_m
    /\ \E i \in 1..Len(d.rows) : 2 * (d.rows[i].alt_bin.v - d.rows[i].alt.v) = bin_m

----------------------------------------------------------------------------
(* Properties of sem, mean_smooth and the confidence band *)

(* C5: sem is undefined for every bin with n < 5 and is std / sqrt(n) for *)
(* every bin with n >= 5, std being defined for every bin with n >= 2.    *)
C5_SemDefinedFromFive ==
    profile.set =>
      \A j \in 1..Len(profile.rows) :
         LET row == profile.rows[j]
         IN /\ row.n < 5 => row.sem = NaN
            /\ row.n >= 2 => IsNum(row.std)
            /\ row.n >= 5 =>
                 /\ IsNum(row.sem)
                 /\ row.sem.v = (row.std.v * Scale) \div ISqrt(row.n * Scale * Scale)

(* bins within (W - 1) / 2 positions of bin i, clipped to the profile *)
Clip(i, w, n) == {j \in 1..n : j >= i - (w - 1) \div 2 /\ j <= i + (w - 1) \div 2}

(* C6: mean_smooth at bin i is the average of the bin means over the     *)
(* clipped window around i and is defined exactly when that window holds *)
(* at least 3 bins, first and last bin included.                         *)
C6_SmoothOverClippedWindow ==
    profile.set =>
      \A i \in 1..Len(profile.rows) :
         LET c == Clip(i, window, Len(profile.rows))
             ms == profile.rows[i].mean_smooth
         IN /\ IsNum(ms) <=> Cardinality(c) >= 3
            /\ IsNum(ms) =>
                 /\ \A j \in c : IsNum(profile.rows[j].mean)
                 /\ ms.v = SumSeq([j \in 1..Len(profile.rows) |->
                                     IF j \in c THEN profile.rows[j].mean.v
                                     ELSE 0]) \div Cardinality(c)

ProfileRowAt(key) == CHOOSE row \in Range(profile.rows) : row.alt_bin = key

(* C7: the plot has a band point for a bin only if show_ci is on and the *)
(* bin has both sem and mean_smooth, every such bin has one, its bounds  *)
(* are mean_smooth -/+ 1.96 sem with lower <= mean_smooth <= upper, and  *)
(* with no such bin the figure is made without a band.                   *)
C7_BandOnlyWhereDefined ==
    fig.set =>
      /\ fig.band # <<>> => show_ci
      /\ \A q \in 1..Len(fig.band) :
            /\ \E row \in Range(profile.rows) : row.alt_bin = fig.band[q].y
            /\ LET row == ProfileRowAt(fig.band[q].y)
               IN /\ IsNum(row.sem) /\ IsNum(row.mean_smooth)
                  /\ fig.band[q].x1.v <= row.mean_smooth.v
                  /\ row.mean_smooth.v <= fig.band[q].x2.v
                  /\ row.mean_smooth.v - fig.band[q].x1.v = (CiZ * row.sem.v) \div 100
                  /\ fig.band[q].x2.v - row.mean_smooth.v = (CiZ * row.sem.v) \div 100
      /\ show_ci =>
           Len(fig.band) =
             Cardinality({j \in 1..Len(profile.rows) :
                             /\ profile.rows[j].sem # NaN
                             /\ profile.rows[j].mean_smooth # NaN})
      /\ fig.has_band <=> fig.band # <<>>

(* a band of positive width over some bins while another bin has none *)
C7_Witness ==
    /\ fig.set
    /\ \E q \in 1..Len(fig.band) : fig.band[q].x1.v < fig.band[q].x2.v
    /\ Len(fig.band) < Len(profile.rows)

(* no bin has both values: the figure exists and has no band *)
C7_WitnessNoBand ==
    /\ fig.set /\ show_ci
    /\ ~fig.has_band
    /\ Len(profile.rows) >= 3

----------------------------------------------------------------------------
(* Properties of a run and of the sequence of runs *)

RunOk == df.set /\ Missing(df) = <<>> /\ CleanedRows(df) # <<>>

(* C9: a plot is rendered exactly when the load succeeded, both columns  *)
(* are there and a record survived cleaning; otherwise the run stops     *)
(* with the error shown and nothing of the later stages: no profile, no  *)
(* figure, no rendering.                                                 *)
C9_PlotIffRunOk ==
    /\ rendered => RunOk /\ fig.set /\ err = NoErr
    /\ pc \in {"done", "stopped"} => (rendered <=> RunOk)
    /\ pc = "done" <=> rendered
    /\ err.kind # "none" <=> pc = "stopped"
    /\ pc = "stopped" =>
         /\ ~RunOk
         /\ ~d.set /\ ~profile.set /\ ~fig.set /\ ~rendered
         /\ err.kind = "load" <=> ~df.set
         /\ err.kind = "schema" <=> (df.set /\ Missing(df) # <<>>)
         /\ err.kind = "empty" <=>
              (df.set /\ Missing(df) = <<>> /\ CleanedRows(df) = <<>>)
    /\ pc \in {"profile", "plot", "render"} => RunOk /\ err = NoErr

(* a run stopped because cleaning left no record *)
C9_Witness ==
    /\ pc = "stopped"
    /\ err.kind = "empty"
    /\ Len(df.rows) > 0

(* C10: what load_data returns for the path is the current content of *)
(* the file, also when the call is answered from the cache.           *)
C10_LoadReturnsCurrentFile ==
    [][(LoadData /\ df'.set) => df' = ReadCsv(file)]_vars

====
